---------------------------- MODULE Spec2Model ----------------------------
(***************************************************************************)
(* A model of the PDF English -> Swahili converter:                        *)
(*   - the translation scheduler translate_to_swahili, its worker jobs     *)
(*     _translate_chunk and the provider chain _provider_try_all           *)
(*     (src/pdf_translator/step2_translate.py);                            *)
(*   - the two layout-preserving converters and their _draw_fit_text       *)
(*     (src/pdf_translator/preserve_layout.py, line level, and             *)
(*     src/preserve_layout.py, block level).                               *)
(* Text is a sequence of one-character strings.  The translation providers *)
(* and the PDF library are external: what a call returns is chosen from a  *)
(* bounded set of outcomes.                                                *)
(***************************************************************************)
EXTENDS Integers, Sequences, FiniteSets, TLC

(***************************************************************************)
(* Bounds of the model.                                                    *)
(***************************************************************************)
MaxChunks == 2
MaxRetries == 2
MaxWorkers == 2

(***************************************************************************)
(* Text: Python str as a sequence of characters.                           *)
(***************************************************************************)
SP == " "
NL == "\n"

IsSpace(c) == c \in {SP, NL}

RECURSIVE lstrip(_)
lstrip(s) ==
    IF s = <<>> THEN <<>>
    ELSE IF IsSpace(Head(s)) THEN lstrip(Tail(s)) ELSE s

RECURSIVE rstrip(_)
rstrip(s) ==
    IF s = <<>> THEN <<>>
    ELSE IF IsSpace(s[Len(s)]) THEN rstrip(SubSeq(s, 1, Len(s) - 1)) ELSE s

\* str.strip(): leading and trailing whitespace removed.
strip(s) == rstrip(lstrip(s))

\* Python truthiness of (s or "").strip(): the text is not blank.
Truthy(s) == strip(s) # <<>>

\* str.split(sep) for a one-character separator: never an empty list.
RECURSIVE split(_, _)
split(s, sep) ==
    IF \A k \in 1..Len(s) : s[k] # sep THEN <<s>>
    ELSE LET k == CHOOSE j \in 1..Len(s) :
                      s[j] = sep /\ \A m \in 1..(j - 1) : s[m] # sep
         IN  <<SubSeq(s, 1, k - 1)>> \o split(SubSeq(s, k + 1, Len(s)), sep)

\* sep.join(parts)
RECURSIVE join(_, _)
join(sep, ps) ==
    IF ps = <<>> THEN <<>>
    ELSE IF Len(ps) = 1 THEN ps[1]
    ELSE ps[1] \o sep \o join(sep, Tail(ps))

(***************************************************************************)
(* The translation providers (deep_translator clients) are external.  A    *)
(* call either raises or returns a text: empty (or None), blank, the input *)
(* echoed, the input echoed with padding, or a translation.                *)
(***************************************************************************)
Pad(c) == <<SP>> \o c
Tr(c) == [k \in 1..Len(c) |->
            IF c[k] = "a" THEN "x" ELSE IF c[k] = "b" THEN "y" ELSE c[k]]
Word == <<"x">>
ProviderTexts(c) == {<<>>, <<SP>>, c, Pad(c), Tr(c), Word}
Raised == [raised |-> TRUE, text |-> <<>>]
Outcomes(c) ==
    {Raised} \cup {[raised |-> FALSE, text |-> t] : t \in ProviderTexts(c)}

\* The chunk texts _chunk_text can hand to the scheduler: a word, a chunk
\* with a whitespace-only line, a blank chunk.
ChunkTexts ==
    { <<"a">>,
      <<"a", NL, SP, NL, "a">>,
      <<SP>> }

\* The provider chain of _provider_try_all: Google, MyMemory (locale codes),
\* MyMemory (language names), LibreTranslate.
NumProviders == 4

VARIABLES
    chunks,         \* indexed_chunks: the chunk texts, in input order
    max_retries,    \* parameter of translate_to_swahili
    max_workers,    \* parameter of translate_to_swahili
    audit,          \* the stub providers count their calls
    trace,          \* the stub providers keep the outcomes of their calls
    fstate,         \* per job: the future is pending, running, succeeded, failed
    jpc,            \* per job: where _translate_chunk is
    attempt,        \* per job: the loop variable of _translate_chunk
    prov,           \* per job: the provider of the chain whose call is in flight
    fresult,        \* per job: the value the future holds when it succeeded
    fvia,           \* per job: the return statement that produced the value
    nprimary,       \* per job: calls made on the primary translator
    nsweeps,        \* per job: calls of _provider_try_all started
    sawAcceptable,  \* per job: some provider call returned an acceptable text
    allEcho,        \* per job: every provider call so far returned its input
    result,         \* per job: the outcome of the last primary call (line 120)
    swept,          \* per job: the outcomes of the calls of the last sweep
    sweepfb,        \* per job: fb, what the last _provider_try_all returned
    results,        \* the output slots
    slotSrc,        \* per slot: the chunks whose outcome was written to it
    collected,      \* the futures as_completed has yielded and the loop handled
    mpc,            \* the main thread: collect, fallback, done, raised
    idx,            \* the chunk whose line-level fallback is running
    parts,          \* the fallback's parts list
    mprov,          \* the fallback's provider whose call is in flight
    fbClean,        \* no provider call of the running fallback was acceptable
    fbFailed,       \* the chunks whose fallback ended with no acceptable call
    retval          \* what translate_to_swahili returned

\* The state of PreserveLayoutConverter.convert.
VARIABLES
    variant,        \* "line": pdf_translator/preserve_layout.py, "block": preserve_layout.py
    has_func,       \* self.translate_func is not None (line level only)
    doc,            \* per page: the number of units the extraction collected
    page_index,     \* the page the second loop is at, or has just finished
    cpc,            \* where convert is
    translated,     \* translated / translated_blocks of the page
    rescue,         \* block level: the per-block retranslation is running
    treturned,      \* per unit of the page: what the translator returned for it
    raisedUnits,    \* the units of the page for which translate_func raised
    redactAnnots,   \* the units of the page that got add_redact_annot
    annots,         \* the redaction marks of the page: unit, rectangle, fill
    applied,        \* apply_redactions calls on the page
    drawn,          \* the units of the page _draw_fit_text was called for
    unit,           \* the unit the drawing loop is at
    fitLog,         \* the insert_textbox calls of the last _draw_fit_text
    inFit,          \* an insert_textbox call of _draw_fit_text is in flight
    saved           \* doc.save calls

\* The state of one _chunk_text generator.
VARIABLES
    ktext,          \* the text argument
    max_chars,      \* the max_chars argument
    yielded,        \* the chunks the generator has yielded so far
    kpc             \* the generator: idle, running, exhausted

kvars == <<ktext, max_chars, yielded, kpc>>

cvars == <<variant, has_func, doc, page_index, cpc, translated, rescue, treturned,
           raisedUnits, redactAnnots, annots, applied, drawn, unit, fitLog, inFit, saved>>

params == <<chunks, max_retries, max_workers, audit, trace>>
jobvars == <<fstate, jpc, attempt, prov, fresult, fvia, nprimary, nsweeps,
             sawAcceptable, allEcho, result, swept, sweepfb>>
mainvars == <<results, slotSrc, collected, mpc, idx, parts, mprov, fbClean,
              fbFailed, retval>>
tvars == <<params, jobvars, mainvars>>

vars == <<tvars, cvars, kvars>>

N == Len(chunks)
Jobs == 1..N

\* ThreadPoolExecutor(max_workers=max(1, max_workers)), line 162
PoolSize == IF max_workers > 1 THEN max_workers ELSE 1

Running == {i \in Jobs : fstate[i] = "running"}

(***************************************************************************)
(* _provider_try_all, lines 74-112.                                        *)
(***************************************************************************)
\* The test of lines 78, 87, 96, 106 on one provider's result.
Accepts(res, chunk) == Truthy(res) /\ strip(res) # strip(chunk)

\* A sweep that a raising provider ends: the chunk comes back at once.
ChainStepStopsOnRaise(k, out, chunk) ==
    IF out.raised THEN [done |-> TRUE, fb |-> chunk, next |-> k]
    ELSE IF Accepts(out.text, chunk)
    THEN [done |-> TRUE, fb |-> out.text, next |-> k]
    ELSE IF k < NumProviders
         THEN [done |-> FALSE, fb |-> <<>>, next |-> k + 1]
         ELSE [done |-> TRUE, fb |-> chunk, next |-> k]

\* A sweep that never returns what its last provider gave.
ChainStepDropsLast(k, out, chunk) ==
    IF ~out.raised /\ Accepts(out.text, chunk) /\ k < NumProviders
    THEN [done |-> TRUE, fb |-> out.text, next |-> k]
    ELSE IF k < NumProviders
         THEN [done |-> FALSE, fb |-> <<>>, next |-> k + 1]
         ELSE [done |-> TRUE, fb |-> chunk, next |-> k]

\* What the sweep does with the outcome of provider k's call: return the
\* result, go on to the next provider, or return the chunk (line 112).
ChainStep(k, out, chunk) ==
    IF ~out.raised /\ Accepts(out.text, chunk)
    THEN [done |-> TRUE, fb |-> out.text, next |-> k]
    ELSE IF k < NumProviders
         THEN [done |-> FALSE, fb |-> <<>>, next |-> k + 1]
         ELSE [done |-> TRUE, fb |-> chunk, next |-> k]

(***************************************************************************)
(* _translate_chunk, lines 115-137.                                        *)
(***************************************************************************)
\* An attempt that compares the result with the chunk untrimmed.
PrimaryStepNoStrip(chunk, out) ==
    IF out.raised THEN "raise"
    ELSE IF ~Truthy(out.text) THEN "raise"
    ELSE IF out.text = chunk THEN "sweep"
    ELSE "return"

\* An attempt that treats an unchanged result as a plain failure.
PrimaryStepNoSweep(chunk, out) ==
    IF out.raised THEN "raise"
    ELSE IF ~Truthy(out.text) THEN "raise"
    ELSE IF strip(out.text) = strip(chunk) THEN "raise"
    ELSE "return"

\* What an attempt does with the primary translator's result, lines 120-131.
PrimaryStep(chunk, out) ==
    IF out.raised THEN "raise"
    ELSE IF ~Truthy(out.text) THEN "raise"
    ELSE IF strip(out.text) = strip(chunk) THEN "sweep"
    ELSE "return"

\* Lines 126 and 135: the sweep's value counts as a translation.
FbChanged(fb, chunk) == strip(fb) # strip(chunk)

\* The stub providers' records: a call returned a text the service may
\* accept; a call returned its input unchanged; the call counter; the
\* return statement that ended the job.
Acceptable(out, chunk) ==
    ~out.raised /\ strip(out.text) # <<>> /\ strip(out.text) # strip(chunk)
Echo(out, chunk) == ~out.raised /\ out.text = chunk
Count(n) == IF audit THEN n + 1 ELSE n
Via(line) == IF trace THEN line ELSE "none"

\* The state at line 161: every chunk submitted, no slot written.
TStart ==
    /\ fstate = [i \in 1..Len(chunks) |-> "pending"]
    /\ jpc = [i \in 1..Len(chunks) |-> "idle"]
    /\ attempt = [i \in 1..Len(chunks) |-> 0]
    /\ prov = [i \in 1..Len(chunks) |-> 0]
    /\ fresult = [i \in 1..Len(chunks) |-> <<>>]
    /\ fvia = [i \in 1..Len(chunks) |-> "none"]
    /\ nprimary = [i \in 1..Len(chunks) |-> 0]
    /\ nsweeps = [i \in 1..Len(chunks) |-> 0]
    /\ sawAcceptable = [i \in 1..Len(chunks) |-> FALSE]
    /\ allEcho = [i \in 1..Len(chunks) |-> TRUE]
    /\ result = [i \in 1..Len(chunks) |-> Raised]
    /\ swept = [i \in 1..Len(chunks) |-> <<>>]
    /\ sweepfb = [i \in 1..Len(chunks) |-> <<>>]
    /\ results = [i \in 1..Len(chunks) |-> <<>>]
    /\ slotSrc = [i \in 1..Len(chunks) |-> <<>>]
    /\ collected = {}
    /\ mpc = "collect"
    /\ idx = 0
    /\ parts = <<>>
    /\ mprov = 0
    /\ fbClean = TRUE
    /\ fbFailed = {}
    /\ retval = <<>>

\* convert is not running.
CIdle ==
    /\ variant = "none"
    /\ has_func = FALSE
    /\ doc = <<>>
    /\ page_index = 0
    /\ cpc = "idle"
    /\ translated = <<>>
    /\ rescue = FALSE
    /\ treturned = <<>>
    /\ raisedUnits = {}
    /\ redactAnnots = {}
    /\ annots = {}
    /\ applied = 0
    /\ drawn = {}
    /\ unit = 0
    /\ fitLog = <<>>
    /\ inFit = FALSE
    /\ saved = 0

\* No _chunk_text generator is open.
KIdle ==
    /\ ktext = <<>>
    /\ max_chars = 0
    /\ yielded = <<>>
    /\ kpc = "idle"

\* translate_to_swahili on up to MaxChunks chunks.
Init ==
    /\ CIdle
    /\ KIdle
    /\ chunks \in UNION {[1..n -> ChunkTexts] : n \in 1..MaxChunks}
    /\ max_retries \in {0, 1}
    /\ max_workers \in 0..MaxWorkers
    /\ audit = FALSE
    /\ trace = FALSE
    /\ TStart

\* One chunk, with stub providers that record their calls.
JobInit ==
    /\ CIdle
    /\ KIdle
    /\ chunks \in [1..1 -> ChunkTexts]
    /\ max_retries \in 0..MaxRetries
    /\ max_workers = 1
    /\ audit = TRUE
    /\ trace = TRUE
    /\ TStart

\* The control state of job i after a step.
JobAt(i, st, pc, att, pv) ==
    /\ fstate' = [fstate EXCEPT ![i] = st]
    /\ jpc' = [jpc EXCEPT ![i] = pc]
    /\ attempt' = [attempt EXCEPT ![i] = att]
    /\ prov' = [prov EXCEPT ![i] = pv]

\* _translate_chunk returns text at the given return statement.
Returns(i, text, line) ==
    /\ JobAt(i, "succeeded", "idle", 0, 0)
    /\ fresult' = [fresult EXCEPT ![i] = text]
    /\ fvia' = [fvia EXCEPT ![i] = Via(line)]

\* The stub providers record the outcome of a call made by job i.
Recorded(i, out) ==
    /\ sawAcceptable' = [sawAcceptable EXCEPT
                           ![i] = @ \/ (trace /\ Acceptable(out, chunks[i]))]
    /\ allEcho' = [allEcho EXCEPT ![i] = @ /\ (trace => Echo(out, chunks[i]))]

\* A loop that always has one more attempt to make.
AttemptsLeftAlways(att, mr) == TRUE

\* for attempt in range(1, max_retries + 1), line 117: after attempt att
\* the loop has another value to take.
AttemptsLeft(att, mr) == att < mr

\* The stub providers keep, for job i, the primary outcome r, the outcomes sw
\* of the sweep and the sweep's value f.
Traced(i, r, sw, f) ==
    /\ result' = IF trace THEN [result EXCEPT ![i] = r] ELSE result
    /\ swept' = IF trace THEN [swept EXCEPT ![i] = sw] ELSE swept
    /\ sweepfb' = IF trace THEN [sweepfb EXCEPT ![i] = f] ELSE sweepfb

\* A worker of the pool takes the next queued job (submission order) and
\* enters _translate_chunk: the first primary attempt, or, when
\* range(1, max_retries + 1) is empty, the last-chance sweep of line 134.
WorkerStart(i) ==
    /\ fstate[i] = "pending"
    /\ \A j \in 1..(i - 1) : fstate[j] # "pending"
    /\ Cardinality(Running) < PoolSize
    /\ IF AttemptsLeft(0, max_retries)
       THEN /\ JobAt(i, "running", "primary", 1, 0)
            /\ UNCHANGED nsweeps
       ELSE /\ JobAt(i, "running", "final", 0, 1)
            /\ nsweeps' = [nsweeps EXCEPT ![i] = Count(@)]
    /\ UNCHANGED <<fresult, fvia, nprimary, sawAcceptable, allEcho, result, swept,
                   sweepfb, mainvars, params, cvars, kvars>>

\* translator.translate(chunk) of line 120 returns or raises.
PrimaryReturn(i, out) ==
    /\ fstate[i] = "running" /\ jpc[i] = "primary"
    /\ nprimary' = [nprimary EXCEPT ![i] = Count(@)]
    /\ Recorded(i, out)
    /\ Traced(i, out, <<>>, sweepfb[i])
    /\ LET r == PrimaryStep(chunks[i], out) IN
       CASE r = "return" ->
              /\ Returns(i, out.text, "line 129")
              /\ UNCHANGED nsweeps
         [] r = "sweep" ->
              /\ JobAt(i, "running", "sweep", attempt[i], 1)
              /\ nsweeps' = [nsweeps EXCEPT ![i] = Count(@)]
              /\ UNCHANGED <<fresult, fvia>>
         [] OTHER ->
              /\ JobAt(i, "running", "backoff", attempt[i], 0)
              /\ UNCHANGED <<fresult, fvia, nsweeps>>
    /\ UNCHANGED <<mainvars, params, cvars, kvars>>

\* A provider call of the sweep started at line 125 returns or raises.
SweepReturn(i, out) ==
    /\ fstate[i] = "running" /\ jpc[i] = "sweep"
    /\ Recorded(i, out)
    /\ LET st == ChainStep(prov[i], out, chunks[i]) IN
       Traced(i, result[i], Append(swept[i], out), IF st.done THEN st.fb ELSE sweepfb[i])
    /\ LET st == ChainStep(prov[i], out, chunks[i]) IN
       IF ~st.done
       THEN /\ JobAt(i, "running", "sweep", attempt[i], st.next)
            /\ UNCHANGED <<fresult, fvia>>
       ELSE IF FbChanged(st.fb, chunks[i])
            THEN Returns(i, st.fb, "line 128")
            ELSE /\ JobAt(i, "running", "backoff", attempt[i], 0)
                 /\ UNCHANGED <<fresult, fvia>>
    /\ UNCHANGED <<nprimary, nsweeps, mainvars, params, cvars, kvars>>

\* time.sleep of line 132 ends: the next attempt, or, after the last
\* attempt, the last-chance sweep of line 134.
BackoffDone(i) ==
    /\ fstate[i] = "running" /\ jpc[i] = "backoff"
    /\ IF AttemptsLeft(attempt[i], max_retries)
       THEN /\ JobAt(i, "running", "primary", attempt[i] + 1, 0)
            /\ UNCHANGED nsweeps
       ELSE /\ JobAt(i, "running", "final", 0, 1)
            /\ nsweeps' = [nsweeps EXCEPT ![i] = Count(@)]
    /\ Traced(i, result[i], <<>>, sweepfb[i])
    /\ UNCHANGED <<fresult, fvia, nprimary, sawAcceptable, allEcho, mainvars, params,
                   cvars, kvars>>

\* A provider call of the last-chance sweep (line 134) returns or raises.
FinalReturn(i, out) ==
    /\ fstate[i] = "running" /\ jpc[i] = "final"
    /\ Recorded(i, out)
    /\ LET st == ChainStep(prov[i], out, chunks[i]) IN
       Traced(i, result[i], Append(swept[i], out), IF st.done THEN st.fb ELSE sweepfb[i])
    /\ LET st == ChainStep(prov[i], out, chunks[i]) IN
       IF ~st.done
       THEN /\ JobAt(i, "running", "final", 0, st.next)
            /\ UNCHANGED <<fresult, fvia>>
       ELSE IF FbChanged(st.fb, chunks[i])
            THEN Returns(i, st.fb, "line 136")
            ELSE /\ JobAt(i, "failed", "idle", 0, 0)
                 /\ UNCHANGED <<fresult, fvia>>
    /\ UNCHANGED <<nprimary, nsweeps, mainvars, params, cvars, kvars>>

(***************************************************************************)
(* translate_to_swahili, lines 140-183: the main thread.                   *)
(***************************************************************************)
\* Slots filled in completion order.
SlotByCompletion(i, c) == c + 1

\* The slot line 170 writes for the future of chunk i: results[idx], with
\* idx = future_to_index[future] (line 168); c futures were handled before.
ResultSlot(i, c) == i

\* The slot line 181 writes for the failed future of chunk i: results[idx].
FallbackSlot(i, c) == i

\* future.result() re-raises the job's exception, the RuntimeError of line
\* 137; "except Exception" (line 171) catches every Exception subclass.
\* The exception classes of the runtime (Python 3.11 builtins, and the
\* CancelledError of asyncio and of concurrent.futures), each with its bases.
Bases ==
    "BaseExceptionGroup" :> {"BaseException"} @@
    "Exception" :> {"BaseException"} @@
    "GeneratorExit" :> {"BaseException"} @@
    "KeyboardInterrupt" :> {"BaseException"} @@
    "SystemExit" :> {"BaseException"} @@
    "ArithmeticError" :> {"Exception"} @@
    "AssertionError" :> {"Exception"} @@
    "AttributeError" :> {"Exception"} @@
    "BufferError" :> {"Exception"} @@
    "EOFError" :> {"Exception"} @@
    "ImportError" :> {"Exception"} @@
    "LookupError" :> {"Exception"} @@
    "MemoryError" :> {"Exception"} @@
    "NameError" :> {"Exception"} @@
    "OSError" :> {"Exception"} @@
    "ReferenceError" :> {"Exception"} @@
    "RuntimeError" :> {"Exception"} @@
    "StopAsyncIteration" :> {"Exception"} @@
    "StopIteration" :> {"Exception"} @@
    "SyntaxError" :> {"Exception"} @@
    "SystemError" :> {"Exception"} @@
    "TypeError" :> {"Exception"} @@
    "ValueError" :> {"Exception"} @@
    "Warning" :> {"Exception"} @@
    "BlockingIOError" :> {"OSError"} @@
    "BytesWarning" :> {"Warning"} @@
    "ChildProcessError" :> {"OSError"} @@
    "ConnectionError" :> {"OSError"} @@
    "DeprecationWarning" :> {"Warning"} @@
    "EncodingWarning" :> {"Warning"} @@
    "ExceptionGroup" :> {"BaseExceptionGroup", "Exception"} @@
    "FileExistsError" :> {"OSError"} @@
    "FileNotFoundError" :> {"OSError"} @@
    "FloatingPointError" :> {"ArithmeticError"} @@
    "FutureWarning" :> {"Warning"} @@
    "ImportWarning" :> {"Warning"} @@
    "IndentationError" :> {"SyntaxError"} @@
    "IndexError" :> {"LookupError"} @@
    "InterruptedError" :> {"OSError"} @@
    "IsADirectoryError" :> {"OSError"} @@
    "KeyError" :> {"LookupError"} @@
    "ModuleNotFoundError" :> {"ImportError"} @@
    "NotADirectoryError" :> {"OSError"} @@
    "NotImplementedError" :> {"RuntimeError"} @@
    "OverflowError" :> {"ArithmeticError"} @@
    "PendingDeprecationWarning" :> {"Warning"} @@
    "PermissionError" :> {"OSError"} @@
    "ProcessLookupError" :> {"OSError"} @@
    "RecursionError" :> {"RuntimeError"} @@
    "ResourceWarning" :> {"Warning"} @@
    "RuntimeWarning" :> {"Warning"} @@
    "SyntaxWarning" :> {"Warning"} @@
    "TimeoutError" :> {"OSError"} @@
    "UnboundLocalError" :> {"NameError"} @@
    "UnicodeError" :> {"ValueError"} @@
    "UnicodeWarning" :> {"Warning"} @@
    "UserWarning" :> {"Warning"} @@
    "ZeroDivisionError" :> {"ArithmeticError"} @@
    "BrokenPipeError" :> {"ConnectionError"} @@
    "ConnectionAbortedError" :> {"ConnectionError"} @@
    "ConnectionRefusedError" :> {"ConnectionError"} @@
    "ConnectionResetError" :> {"ConnectionError"} @@
    "TabError" :> {"IndentationError"} @@
    "UnicodeDecodeError" :> {"UnicodeError"} @@
    "UnicodeEncodeError" :> {"UnicodeError"} @@
    "UnicodeTranslateError" :> {"UnicodeError"} @@
    "asyncio.CancelledError" :> {"BaseException"} @@
    "concurrent.futures.CancelledError" :> {"Exception"}

\* issubclass(e, cls) over the classes of Bases.
RECURSIVE IsSubclass(_, _)
IsSubclass(e, cls) ==
    \/ e = cls
    \/ /\ e \in DOMAIN Bases
       /\ \E b \in Bases[e] : IsSubclass(b, cls)

\* "except Exception" (line 171) catches the classes under Exception and
\* lets the others pass.
JobError == "RuntimeError"
NotExceptions == {e \in DOMAIN Bases \cup {"BaseException"} : ~IsSubclass(e, "Exception")}
Catches(e) == IsSubclass(e, "Exception")

\* Lines 175-178: the pieces that are blank get "" and no provider call.
RECURSIVE SkipBlank(_, _)
SkipBlank(ps, pieces) ==
    IF Len(ps) < Len(pieces) /\ ~Truthy(pieces[Len(ps) + 1])
    THEN SkipBlank(Append(ps, <<>>), pieces)
    ELSE ps

\* Lines 180-181: the value the fallback writes for the chunk.
Merged(ps, original_chunk) ==
    LET merged == join(<<NL>>, ps)
    IN  IF Truthy(merged) THEN merged ELSE original_chunk

\* original_chunk.split("\n"), line 175
Pieces(i) == split(chunks[i], NL)

\* The fallback has parts ps for chunk i: it writes the slot when every
\* piece is done, and otherwise calls the first provider on the next piece.
FallbackGoOn(i, ps, clean) ==
    IF Len(ps) = Len(Pieces(i))
    THEN /\ results' = [results EXCEPT
               ![FallbackSlot(i, Cardinality(collected))] = Merged(ps, chunks[i])]
         /\ slotSrc' = [slotSrc EXCEPT
               ![FallbackSlot(i, Cardinality(collected))] = Append(@, i)]
         /\ collected' = collected \cup {i}
         /\ fbFailed' = IF clean THEN fbFailed \cup {i} ELSE fbFailed
         /\ mpc' = "collect"
         /\ idx' = 0
         /\ parts' = <<>>
         /\ mprov' = 0
         /\ fbClean' = TRUE
    ELSE /\ mpc' = "fallback"
         /\ idx' = i
         /\ parts' = ps
         /\ mprov' = 1
         /\ fbClean' = clean
         /\ UNCHANGED <<results, slotSrc, collected, fbFailed>>

\* as_completed yields the future of chunk i, which succeeded: line 170.
CollectResult(i) ==
    /\ mpc = "collect"
    /\ i \notin collected
    /\ fstate[i] = "succeeded"
    /\ results' = [results EXCEPT
          ![ResultSlot(i, Cardinality(collected))] = fresult[i]]
    /\ slotSrc' = [slotSrc EXCEPT
          ![ResultSlot(i, Cardinality(collected))] = Append(@, i)]
    /\ collected' = collected \cup {i}
    /\ UNCHANGED <<mpc, idx, parts, mprov, fbClean, fbFailed, retval, jobvars, params, cvars, kvars>>

\* as_completed yields the future of chunk i, which failed: future.result()
\* raises and the line-level fallback of lines 171-181 starts.
CollectFailure(i) ==
    /\ mpc = "collect"
    /\ i \notin collected
    /\ fstate[i] = "failed"
    /\ IF Catches(JobError)
       THEN FallbackGoOn(i, SkipBlank(<<>>, Pieces(i)), TRUE)
       ELSE /\ mpc' = "raised"
            /\ UNCHANGED <<results, slotSrc, collected, idx, parts, mprov,
                           fbClean, fbFailed>>
    /\ UNCHANGED <<retval, jobvars, params, cvars, kvars>>

\* A provider call of the fallback's _provider_try_all(piece), line 179,
\* returns or raises.
FallbackReturn(out) ==
    /\ mpc = "fallback"
    /\ LET piece == Pieces(idx)[Len(parts) + 1]
           st == ChainStep(mprov, out, piece)
           clean == fbClean /\ ~Acceptable(out, piece)
       IN  IF ~st.done
           THEN /\ mprov' = st.next
                /\ fbClean' = clean
                /\ UNCHANGED <<results, slotSrc, collected, mpc, idx, parts, fbFailed>>
           ELSE FallbackGoOn(idx, SkipBlank(Append(parts, st.fb), Pieces(idx)), clean)
    /\ UNCHANGED <<retval, jobvars, params, cvars, kvars>>

\* Every future was handled: the pool shuts down and line 183 returns.
Return ==
    /\ mpc = "collect"
    /\ collected = Jobs
    /\ mpc' = "done"
    /\ retval' = join(<<NL, NL>>, results)
    /\ UNCHANGED <<results, slotSrc, collected, idx, parts, mprov, fbClean, fbFailed,
                   jobvars, params, cvars, kvars>>

TNext ==
    \/ \E i \in Jobs : WorkerStart(i)
    \/ \E i \in Jobs : \E out \in Outcomes(chunks[i]) : PrimaryReturn(i, out)
    \/ \E i \in Jobs : \E out \in Outcomes(chunks[i]) : SweepReturn(i, out)
    \/ \E i \in Jobs : BackoffDone(i)
    \/ \E i \in Jobs : \E out \in Outcomes(chunks[i]) : FinalReturn(i, out)
    \/ \E i \in Jobs : CollectResult(i)
    \/ \E i \in Jobs : CollectFailure(i)
    \/ /\ mpc = "fallback"
       /\ \E out \in Outcomes(Pieces(idx)[Len(parts) + 1]) : FallbackReturn(out)
    \/ Return

Spec == Init /\ [][TNext]_vars

\* translate_to_swahili with counting stub providers and with any
\* max_workers, zero and negative included.
LiveInit ==
    /\ CIdle
    /\ KIdle
    /\ chunks \in UNION {[1..n -> ChunkTexts] : n \in 1..MaxChunks}
    /\ max_retries \in {0, 1}
    /\ max_workers \in -1..MaxWorkers
    /\ audit = TRUE
    /\ trace = FALSE
    /\ TStart

\* Every provider call returns or raises, every sleep ends, and the threads
\* are scheduled: a step that can be taken is taken.
LiveSpec == LiveInit /\ [][TNext]_vars /\ WF_vars(TNext)

JobSpec == JobInit /\ [][TNext]_vars

(***************************************************************************)
(* PreserveLayoutConverter.convert and _draw_fit_text, in the line-level   *)
(* converter (src/pdf_translator/preserve_layout.py) and in the            *)
(* block-level converter (src/preserve_layout.py).  The first loop of      *)
(* convert has run: page p holds doc[p] units, each with a text that is    *)
(* not blank, and, at line level, a size hint in tenths of a point.        *)
(***************************************************************************)
MaxPages == 2
MaxUnits == 2

\* The size hints of the units: 4.5, none (0.0), 7.5.
Hints == <<45, 0, 75>>

UnitText(p, k) == IF k % 2 = 1 THEN <<"a">> ELSE <<"b">>
UnitSize(p, k) == Hints[((p + k) % 3) + 1]

\* The bounding box PyMuPDF reports for unit k of page p, as <<x0, y0, x1, y1>>.
Bbox(p, k) == <<10 * p, 20 * k, 10 * p + 100, 20 * k + 12>>

\* The region recorded for a unit: the line's box drawn in by pad = 2.0 on
\* every side (lines 70-73), or the block's box as it is (lines 29-39).
pad == 2
UnitRect(v, p, k) ==
    LET b == Bbox(p, k)
    IN  IF v = "line" THEN <<b[1] + pad, b[2] + pad, b[3] - pad, b[4] - pad>> ELSE b

\* The fill of a redaction mark: fill=None at line level (line 104),
\* fill=(1, 1, 1), white, at block level (line 63).
NoFill == "None"
RedactFill(v) == IF v = "line" THEN NoFill ELSE <<1, 1, 1>>

Min(a, b) == IF a < b THEN a ELSE b

\* translated_text.split("\n\n"), line 49 of the block-level converter.
RECURSIVE splitPara(_)
splitPara(s) ==
    IF \A k \in 1..(Len(s) - 1) : ~(s[k] = NL /\ s[k + 1] = NL) THEN <<s>>
    ELSE LET k == CHOOSE j \in 1..(Len(s) - 1) :
                      /\ s[j] = NL /\ s[j + 1] = NL
                      /\ \A m \in 1..(j - 1) : ~(s[m] = NL /\ s[m + 1] = NL)
         IN  <<SubSeq(s, 1, k - 1)>> \o splitPara(SubSeq(s, k + 2, Len(s)))

\* What the stub translate_func does with a unit: it raises, or returns a
\* blank text, or returns a translation.
FuncOutcomes(txt) ==
    {Raised, [raised |-> FALSE, text |-> <<SP>>], [raised |-> FALSE, text |-> Tr(txt)]}

\* The line-level fallback of translate_to_swahili when every provider fails.
LineFallback(chunk) ==
    LET pieces == split(chunk, NL)
    IN  Merged([k \in 1..Len(pieces) |->
                   IF Truthy(pieces[k]) THEN pieces[k] ELSE <<>>], chunk)

\* What _provider_try_all(piece) can give the fallback for one piece of the
\* chunk (lines 175-179): "" for a blank piece, else a text a provider gave
\* and the sweep accepted, or the piece itself.
PieceResults(piece) ==
    IF ~Truthy(piece) THEN {<<>>}
    ELSE {t \in {Tr(piece), Word} : Accepts(t, piece)} \cup {piece}

\* The values the fallback of lines 171-181 can write for a chunk: every
\* piece on its own is translated or kept.
FallbackResults(chunk) ==
    LET pieces == split(chunk, NL)
        any == UNION {PieceResults(pieces[k]) : k \in 1..Len(pieces)}
    IN  {Merged(ps, chunk) :
            ps \in {f \in [1..Len(pieces) -> any] :
                       \A k \in 1..Len(pieces) : f[k] \in PieceResults(pieces[k])}}

\* What translate_to_swahili returns for a short text (one chunk): a text a
\* provider gave and the job accepted, or one of the fallback's texts.
SwahiliResults(text) ==
    {t \in {Tr(text), Word, Word \o <<NL, NL>>} : Accepts(t, text)}
        \cup FallbackResults(text)

\* The outcomes of the translation call for one line (lines 85-91).
TranslatorOutcomes(txt) ==
    IF has_func THEN FuncOutcomes(txt)
    ELSE {[raised |-> FALSE, text |-> t] : t \in SwahiliResults(txt)}

\* A converter whose call of translate_func is not inside a try.
LineTranslatedNoCatch(func, txt, out) == out

\* Lines 85-91 of the line-level converter: the value appended for a line;
\* only the call of translate_func is inside a try.
LineTranslated(func, txt, out) ==
    IF func /\ out.raised THEN [raised |-> FALSE, text |-> txt]
    ELSE out

\* Lines 93-97 of the line-level converter: pad with "" or trim.
PadOrTrim(tr, n) ==
    IF Len(tr) < n THEN tr \o [k \in 1..(n - Len(tr)) |-> <<>>]
    ELSE SubSeq(tr, 1, n)

\* A guard that tests the text for emptiness without trimming it.
WillRedrawNonEmpty(new_text) == new_text # <<>>

\* The test that guards add_redact_annot and the draw: (new_text or "").strip()
WillRedraw(new_text) == Truthy(new_text)

\* insert_textbox returns the space left over; the code reads any non-zero
\* value as text that did not fit.
Leftovers == {0, 1}
Overflowed(leftover) == leftover # 0

\* The sizes _draw_fit_text tries after the auto-fit: range(start, 5, -1)
\* with start = int(base_size) or 12 at line level, a fixed list at block
\* level.
LadderStart(hint) == IF hint > 0 THEN hint \div 10 ELSE 12
Ladder(v, hint) ==
    IF v = "line"
    THEN LET start == LadderStart(hint)
         IN  [j \in 1..(IF start >= 6 THEN start - 5 ELSE 0) |-> start + 1 - j]
    ELSE <<14, 12, 11, 10, 9, 8, 7, 6>>

\* The insert_textbox calls _draw_fit_text makes when every one overflows.
FitCalls(v, hint) ==
    <<[kind |-> "auto", size |-> 0]>>
        \o [j \in 1..Len(Ladder(v, hint)) |->
               [kind |-> "ladder", size |-> Ladder(v, hint)[j]]]
        \o <<[kind |-> "trunc", size |-> 6]>>

\* The last resort, lines 134-135 (91-92 at block level): the text cut to
\* max(50, len // 3) characters (len // 4 at block level), then " …"; the
\* ellipsis character is written "..." here.
TruncFloor == 50
\* The marker: a space and U+2026, written "..."; the block-level file holds
\* the marker as a space and the three characters U+00E2 U+20AC U+00A6.
Ellipsis(v) ==
    IF v = "line" THEN <<SP, "...">> ELSE <<SP, "U+00E2", "U+20AC", "U+00A6">>
TruncLen(v, n) ==
    LET part == n \div (IF v = "line" THEN 3 ELSE 4)
    IN  IF part > TruncFloor THEN part ELSE TruncFloor
Visible(v, text) == SubSeq(text, 1, Min(Len(text), TruncLen(v, Len(text)))) \o Ellipsis(v)

\* The string an insert_textbox call of _draw_fit_text is given.
FitText(v, call, text) == IF call.kind = "trunc" THEN Visible(v, text) ELSE text

\* A _draw_fit_text that gives up at the floor size without truncating.
DrawFitReturnsAtFloor(call, leftover) ==
    call.kind = "trunc" \/ ~Overflowed(leftover) \/ call.size = 6

\* _draw_fit_text returns after this call: "if not leftover: return" after
\* the auto-fit and each ladder size, unconditionally after the truncated
\* render.
DrawFitReturns(call, leftover) ==
    call.kind = "trunc" \/ ~Overflowed(leftover)

NPages == Len(doc)
NUnits == IF page_index \in 1..NPages THEN doc[page_index] ELSE 0
ZipLen == Min(NUnits, Len(translated))

\* translate_to_swahili is not running.
TIdle ==
    /\ chunks = <<>>
    /\ max_retries = 0
    /\ max_workers = 0
    /\ audit = FALSE
    /\ trace = FALSE
    /\ TStart

\* convert has opened the document and collected the units of every page.
ConvStart ==
    /\ variant \in {"line", "block"}
    /\ has_func \in BOOLEAN
    /\ variant = "block" => ~has_func
    /\ doc \in UNION {[1..n -> 0..MaxUnits] : n \in 1..MaxPages}
    /\ page_index = 0
    /\ cpc = "next"
    /\ translated = <<>>
    /\ rescue = FALSE
    /\ treturned = <<>>
    /\ raisedUnits = {}
    /\ redactAnnots = {}
    /\ annots = {}
    /\ applied = 0
    /\ drawn = {}
    /\ unit = 0
    /\ fitLog = <<>>
    /\ inFit = FALSE
    /\ saved = 0

ConvInit == TIdle /\ KIdle /\ ConvStart

docvars == <<variant, has_func, doc>>

\* A loop that sends a page with units straight to the redaction loop.
PageStartPhaseNoTranslate(n) == IF n = 0 THEN "next" ELSE "redact"

\* Lines 78-79 (42-45 at block level): where a page with n units goes.
PageStartPhase(n) == IF n = 0 THEN "next" ELSE "translate"

\* The second loop takes the next page: a page with no units is skipped
\* (continue); otherwise the page's translation starts with empty lists.
PageStart ==
    /\ cpc = "next"
    /\ page_index < NPages
    /\ page_index' = page_index + 1
    /\ translated' = <<>>
    /\ rescue' = FALSE
    /\ treturned' = <<>>
    /\ raisedUnits' = {}
    /\ redactAnnots' = {}
    /\ annots' = {}
    /\ applied' = 0
    /\ drawn' = {}
    /\ unit' = 0
    /\ fitLog' = <<>>
    /\ cpc' = PageStartPhase(doc[page_index + 1])
    /\ UNCHANGED <<inFit, saved, docvars, tvars, kvars>>

\* Line level, lines 84-97: the translation call for the next line returns
\* or raises; after the last line the list is padded or trimmed.
LineGot(out) ==
    /\ variant = "line"
    /\ cpc = "translate"
    /\ LET k == Len(translated) + 1
           r == LineTranslated(has_func, UnitText(page_index, k), out)
       IN  IF r.raised
           THEN /\ cpc' = "raised"
                /\ UNCHANGED <<translated, treturned, raisedUnits>>
           ELSE /\ treturned' = Append(treturned, out)
                /\ raisedUnits' = IF out.raised THEN raisedUnits \cup {k}
                                  ELSE raisedUnits
                /\ IF k = NUnits
                   THEN /\ translated' = PadOrTrim(Append(translated, r.text), NUnits)
                        /\ cpc' = "redact"
                   ELSE /\ translated' = Append(translated, r.text)
                        /\ UNCHANGED cpc
    /\ UNCHANGED <<page_index, rescue, redactAnnots, annots, applied, drawn, unit, fitLog,
                   inFit, saved, docvars>>

TranslateLine(out) == LineGot(out) /\ UNCHANGED <<tvars, kvars>>

\* Block level, lines 47-54: the page's blocks are joined, translated in one
\* call and split; when the counts differ the per-block rescue starts.
BlocksGot(t) ==
    /\ variant = "block"
    /\ cpc = "translate"
    /\ ~rescue
    /\ LET translated_blocks == splitPara(t)
       IN  IF Len(translated_blocks) # NUnits
           THEN /\ rescue' = TRUE
                /\ translated' = <<>>
                /\ UNCHANGED cpc
           ELSE /\ translated' = translated_blocks
                /\ cpc' = "redact"
                /\ UNCHANGED rescue
    /\ UNCHANGED <<page_index, treturned, raisedUnits, redactAnnots, annots, applied, drawn,
                   unit, fitLog, inFit, saved, docvars>>

TranslateBlocks(t) == BlocksGot(t) /\ UNCHANGED <<tvars, kvars>>

\* Block level, lines 55-56: translate_to_swahili(txt) for the next block.
RescueGot(t) ==
    /\ variant = "block"
    /\ cpc = "translate"
    /\ rescue
    /\ translated' = Append(translated, t)
    /\ cpc' = IF Len(translated) + 1 = NUnits THEN "redact" ELSE "translate"
    /\ UNCHANGED <<page_index, rescue, treturned, raisedUnits, redactAnnots, annots, applied,
                   drawn, unit, fitLog, inFit, saved, docvars>>

RescueBlock(t) == RescueGot(t) /\ UNCHANGED <<tvars, kvars>>

\* The redaction loop and apply_redactions: lines 99-107 (line level) and
\* 58-66 (block level).
Redact ==
    /\ cpc = "redact"
    /\ LET marked == {k \in 1..ZipLen : WillRedraw(translated[k])}
       IN  /\ redactAnnots' = marked
           /\ annots' = {[unit |-> k, rect |-> UnitRect(variant, page_index, k),
                           fill |-> RedactFill(variant)] : k \in marked}
           /\ applied' = IF marked # {} THEN applied + 1 ELSE applied
    /\ cpc' = "draw"
    /\ unit' = 1
    /\ UNCHANGED <<page_index, translated, rescue, treturned, raisedUnits, drawn,
                   fitLog, inFit, saved, docvars, tvars, kvars>>

\* A drawing loop that draws every unit, blank or not.
ToDrawEveryUnit == unit..ZipLen

\* The units the drawing loop has still to draw: not before `unit`, with a
\* translation that is not blank (lines 110-112 and 69-71).
ToDraw == {k \in unit..ZipLen : WillRedraw(translated[k])}

\* The drawing loop goes to the next unit it draws and _draw_fit_text makes
\* its auto-fit call; or the loop ends and the page is finished.
DrawNext ==
    /\ cpc = "draw"
    /\ ~inFit
    /\ IF ToDraw # {}
       THEN LET k == CHOOSE j \in ToDraw : \A m \in ToDraw : j <= m
            IN  /\ unit' = k
                /\ drawn' = drawn \cup {k}
                /\ fitLog' = <<>>
                /\ inFit' = TRUE
                /\ UNCHANGED <<page_index, cpc>>
       ELSE /\ cpc' = "next"
            /\ UNCHANGED <<page_index, unit, drawn, fitLog, inFit>>
    /\ UNCHANGED <<translated, rescue, treturned, raisedUnits, redactAnnots, annots, applied,
                   saved, docvars, tvars, kvars>>

\* The insert_textbox call in flight returns: _draw_fit_text returns, or
\* makes its next call.
InsertReturn(leftover) ==
    /\ cpc = "draw"
    /\ inFit
    /\ LET call == FitCalls(variant, UnitSize(page_index, unit))[Len(fitLog) + 1]
       IN  /\ fitLog' = Append(fitLog, [kind |-> call.kind, size |-> call.size,
                                        text |-> FitText(variant, call, translated[unit]),
                                        leftover |-> leftover])
           /\ IF DrawFitReturns(call, leftover)
              THEN /\ inFit' = FALSE
                   /\ unit' = unit + 1
              ELSE UNCHANGED <<inFit, unit>>
    /\ UNCHANGED <<page_index, cpc, translated, rescue, treturned, raisedUnits,
                   redactAnnots, annots, applied, drawn, saved, docvars, tvars, kvars>>

\* An insert_textbox call raises: nothing in convert catches it.
InsertRaises ==
    /\ cpc = "draw"
    /\ inFit
    /\ cpc' = "failed"
    /\ inFit' = FALSE
    /\ UNCHANGED <<page_index, translated, rescue, treturned, raisedUnits, redactAnnots, annots,
                   applied, drawn, unit, fitLog, saved, docvars, tvars, kvars>>

\* A convert that saves whenever a page is finished.
SaveDueAnyPage == cpc = "next" /\ page_index >= 1

\* The second loop is over (line 117; 76 at block level).
SaveDue == cpc = "next" /\ page_index = NPages

\* After the last page: makedirs, doc.save, doc.close.
Save ==
    /\ SaveDue
    /\ saved' = saved + 1
    /\ cpc' = "done"
    /\ UNCHANGED <<page_index, translated, rescue, treturned, raisedUnits,
                   redactAnnots, annots, applied, drawn, unit, fitLog, inFit, docvars, tvars, kvars>>

\* The text of the page as the block-level converter joins it (line 47).
PageText ==
    join(<<NL, NL>>, [k \in 1..NUnits |-> UnitText(page_index, k)])

ConvNext ==
    \/ PageStart
    \/ /\ variant = "line" /\ cpc = "translate"
       /\ \E out \in TranslatorOutcomes(UnitText(page_index, Len(translated) + 1)) :
             TranslateLine(out)
    \/ /\ variant = "block" /\ cpc = "translate" /\ ~rescue
       /\ \E t \in SwahiliResults(PageText) : TranslateBlocks(t)
    \/ /\ variant = "block" /\ cpc = "translate" /\ rescue
       /\ \E t \in SwahiliResults(UnitText(page_index, Len(translated) + 1)) :
             RescueBlock(t)
    \/ Redact
    \/ DrawNext
    \/ \E leftover \in Leftovers : InsertReturn(leftover)
    \/ InsertRaises
    \/ Save

ConvSpec == ConvInit /\ [][ConvNext]_vars

(***************************************************************************)
(* _chunk_text, lines 22-71 of step2_translate.py.  The generator's locals *)
(* are folded into a record: buffer, current_len, and the chunks yielded.  *)
(* src and osrc note, for each unit of the buffer and for the first and    *)
(* last unit of each chunk, the paragraph the unit was cut from.           *)
(***************************************************************************)
MaxTokens == 5
MaxChars == 6

\* s holds sep at position j.
Occurs(s, sep, j) ==
    j + Len(sep) - 1 <= Len(s) /\ SubSeq(s, j, j + Len(sep) - 1) = sep

\* str.split(sep) for a separator of one or more characters.
RECURSIVE splitOn(_, _)
splitOn(s, sep) ==
    LET hits == {j \in 1..Len(s) : Occurs(s, sep, j)}
    IN  IF hits = {} THEN <<s>>
        ELSE LET k == CHOOSE j \in hits : \A m \in hits : j <= m
             IN  <<SubSeq(s, 1, k - 1)>>
                     \o splitOn(SubSeq(s, k + Len(sep), Len(s)), sep)

ParaSep == <<NL, NL>>
SentSep == <<".", SP>>

\* The locals at line 32.
ChunkStart == [buffer |-> <<>>, src |-> <<>>, current_len |-> 0,
               out |-> <<>>, osrc |-> <<>>]

\* flush_buffer, lines 34-37: yield the joined buffer and clear it.
flush_buffer(st) ==
    IF st.buffer = <<>> THEN st
    ELSE [st EXCEPT !.out = Append(@, join(ParaSep, st.buffer)),
                    !.osrc = Append(@, <<st.src[1], st.src[Len(st.src)]>>),
                    !.buffer = <<>>,
                    !.src = <<>>]

\* Lines 47-55 (w = 1, a sentence) and 61-68 (w = 2, a paragraph): the unit
\* joins the buffer, after a flush when the running length says so.
AddUnit(st, u, p, w, m) ==
    IF st.current_len + Len(u) + w > m
    THEN [flush_buffer(st) EXCEPT !.buffer = <<u>>, !.src = <<p>>,
                                  !.current_len = Len(u)]
    ELSE [st EXCEPT !.buffer = Append(@, u), !.src = Append(@, p),
                    !.current_len = @ + Len(u) + w]

\* Lines 43-55: the sentences of a long paragraph, trimmed; empty ones are
\* passed over.
RECURSIVE SentenceLoop(_, _, _, _)
SentenceLoop(st, sentences, p, m) ==
    IF sentences = <<>> THEN st
    ELSE LET sentence == strip(Head(sentences))
         IN  SentenceLoop(IF sentence = <<>> THEN st
                          ELSE AddUnit(st, sentence, p, 1, m),
                          Tail(sentences), p, m)

\* Lines 40-68: one paragraph.
ParagraphStep(st, paragraph, p, m) ==
    IF Len(paragraph) > m
    THEN [flush_buffer(SentenceLoop(st, splitOn(paragraph, SentSep), p, m))
             EXCEPT !.current_len = 0]
    ELSE AddUnit(st, paragraph, p, 2, m)

RECURSIVE ParagraphLoop(_, _, _, _)
ParagraphLoop(st, paragraphs, p, m) ==
    IF p > Len(paragraphs) THEN st
    ELSE ParagraphLoop(ParagraphStep(st, paragraphs[p], p, m), paragraphs, p + 1, m)

\* Everything the generator yields for text and m = max_chars.
chunk_text(text, m) ==
    IF text = <<>> THEN ChunkStart
    ELSE flush_buffer(ParagraphLoop(ChunkStart, splitOn(text, ParaSep), 1, m))

\* The input texts: up to MaxTokens tokens, each a letter, a sentence end,
\* a paragraph break or a space.
Tokens == {<<"a">>, SentSep, ParaSep, <<SP>>}

RECURSIVE Flatten(_)
Flatten(ts) == IF ts = <<>> THEN <<>> ELSE Head(ts) \o Flatten(Tail(ts))

Texts == {Flatten(ts) : ts \in UNION {[1..n -> Tokens] : n \in 0..MaxTokens}}

\* _chunk_text(text, max_chars) was called: the generator is open.
ChunkInit ==
    /\ CIdle
    /\ chunks = <<>>
    /\ max_retries = 0
    /\ max_workers = 0
    /\ audit = FALSE
    /\ trace = FALSE
    /\ TStart
    /\ ktext \in Texts
    /\ max_chars \in 0..MaxChars
    /\ yielded = <<>>
    /\ kpc = "running"

\* next() on the generator yields the next chunk.
YieldNext ==
    /\ kpc = "running"
    /\ Len(yielded) < Len(chunk_text(ktext, max_chars).out)
    /\ yielded' = Append(yielded, chunk_text(ktext, max_chars).out[Len(yielded) + 1])
    /\ UNCHANGED <<ktext, max_chars, kpc, tvars, cvars>>

\* next() on the generator finds it exhausted.
Exhausted ==
    /\ kpc = "running"
    /\ Len(yielded) = Len(chunk_text(ktext, max_chars).out)
    /\ kpc' = "exhausted"
    /\ UNCHANGED <<ktext, max_chars, yielded, tvars, cvars>>

ChunkNext == YieldNext \/ Exhausted

ChunkSpec == ChunkInit /\ [][ChunkNext]_vars

\* The paragraphs the first and the last unit of chunk j were cut from.
ChunkSrc(j) == chunk_text(ktext, max_chars).osrc[j]

\* The separator that stood in the text between chunk j and chunk j + 1:
\* the sentence separator inside one paragraph, else the paragraph separator.
Joiner(j) == IF ChunkSrc(j)[2] = ChunkSrc(j + 1)[1] THEN SentSep ELSE ParaSep

RECURSIVE Rejoined(_)
Rejoined(n) ==
    IF n = 0 THEN <<>>
    ELSE IF n = 1 THEN yielded[1]
    ELSE Rejoined(n - 1) \o Joiner(n - 1) \o yielded[n]

\* The characters of s that are not whitespace, in order.
NonSpace(s) == SelectSeq(s, LAMBDA c : ~IsSpace(c))

\* The sentences (trimmed, not empty) of the paragraphs of the text.
SentencesOf(text) ==
    {strip(x) : x \in UNION {{y[k] : k \in 1..Len(y)} :
                   y \in {splitOn(q, SentSep) :
                            q \in {splitOn(text, ParaSep)[k] :
                                     k \in 1..Len(splitOn(text, ParaSep))}}}}

(***************************************************************************)
(* Claims about the scheduler (Spec) and about one job (JobSpec).          *)
(***************************************************************************)

\* C1: whatever the pool size and the order in which the jobs complete,
\* output slot i is written exactly once and only with the outcome of chunk
\* i (the job's own return value when it succeeded), so that on return there
\* is exactly one entry per chunk, in input order.
C1_SlotsInInputOrder ==
    /\ \A i \in Jobs :
         /\ slotSrc[i] \in {<<>>, <<i>>}
         /\ (slotSrc[i] = <<i>>) <=> (i \in collected)
         /\ (i \in collected /\ fstate[i] = "succeeded") => results[i] = fresult[i]
    /\ mpc = "done" =>
         /\ DOMAIN results = 1..Len(chunks)
         /\ \A i \in Jobs : slotSrc[i] = <<i>>

\* The last chunk's slot is written while the first chunk's job still runs.
C1_Witness ==
    /\ N >= 2 /\ PoolSize >= 2
    /\ slotSrc[N] = <<N>> /\ slotSrc[1] = <<>>
    /\ fstate[1] = "running"
    /\ fstate[N] = "succeeded"

\* C3: a failed job never makes translate_to_swahili raise; the step that
\* ends its line-level fallback writes the failed chunk's own slot and no
\* sibling slot, the fallback's other steps write no slot, and on return
\* every slot has been filled.
C3_FailureContained ==
    [][ /\ mpc' # "raised"
        /\ \A i \in Jobs :
             (fstate[i] = "failed" /\ i \notin collected /\ i \in collected') =>
                /\ slotSrc'[i] = Append(slotSrc[i], i)
                /\ \A j \in Jobs \ {i} :
                     results'[j] = results[j] /\ slotSrc'[j] = slotSrc[j]
        /\ (mpc = "fallback" /\ mpc' = "fallback") =>
                (results' = results /\ slotSrc' = slotSrc)
        /\ (mpc' = "done") => \A i \in Jobs : slotSrc'[i] # <<>>
      ]_vars

\* A failed chunk's fallback has written its slot while a sibling job is
\* still running and another sibling's slot is already written.
C3_Witness ==
    \E i \in Jobs : \E j \in Jobs :
        /\ fstate[i] = "failed" /\ i \in collected /\ slotSrc[i] = <<i>>
        /\ fstate[j] = "running" /\ slotSrc[j] = <<>>

\* C4 (as claimed): when a chunk's job failed and no provider call of its
\* line-level fallback gave an acceptable text, the chunk's slot holds the
\* chunk's original text unchanged, whitespace-only lines included.
C4_FallbackVerbatim ==
    \A i \in fbFailed : results[i] = chunks[i]

\* C5: every value _translate_chunk returns (line 129, line 128 or line
\* 136) is non-empty after trimming and differs from the trimmed chunk; the
\* chunk itself is never returned.
C5_ReturnsAreTranslations ==
    \A i \in Jobs :
        fstate[i] = "succeeded" =>
            /\ strip(fresult[i]) # <<>>
            /\ strip(fresult[i]) # strip(chunks[i])
            /\ fresult[i] # chunks[i]

\* The job returned the in-attempt correction of the chain.
C5_Witness ==
    \E i \in Jobs : fstate[i] = "succeeded" /\ fvia[i] = "line 128"

\* C6: a job fails only if every provider call it made raised or returned
\* an empty or input-identical text; once a call returns an acceptable text
\* the job has succeeded.
C6_FailsOnlyWhenAllDegenerate ==
    \A i \in Jobs :
        /\ fstate[i] = "failed" => ~sawAcceptable[i]
        /\ sawAcceptable[i] => fstate[i] = "succeeded"

\* A job failed after calls on the primary path and in several sweeps.
C6_Witness ==
    \E i \in Jobs :
        /\ fstate[i] = "failed"
        /\ nprimary[i] >= 2 /\ nsweeps[i] >= 2 /\ ~allEcho[i]

\* C7 (as claimed): with providers that all echo, the job fails after
\* exactly max_retries primary calls and exactly one sweep of the chain.
C7_OneSweepOnly ==
    \A i \in Jobs :
        (fstate[i] = "failed" /\ allEcho[i]) =>
            (nprimary[i] = max_retries /\ nsweeps[i] = 1)

\* C7 (amended): with providers that all echo, the job never succeeds, and
\* it fails after exactly max_retries primary calls; for a chunk that is
\* not blank each attempt sweeps the chain once and the last-chance sweep
\* follows (max_retries + 1 sweeps); for a blank chunk only the last-chance
\* sweep is made.
C7_SweepPerAttempt ==
    \A i \in Jobs :
        allEcho[i] =>
            /\ fstate[i] # "succeeded"
            /\ fstate[i] = "failed" =>
                 /\ nprimary[i] = max_retries
                 /\ nsweeps[i] = IF Truthy(chunks[i]) THEN max_retries + 1 ELSE 1

\* Echoing providers, two attempts, three sweeps.
C7_Witness ==
    \E i \in Jobs :
        /\ fstate[i] = "failed" /\ allEcho[i] /\ Truthy(chunks[i])
        /\ max_retries = 2 /\ nprimary[i] = 2 /\ nsweeps[i] = 3

(***************************************************************************)
(* convert calling translate_to_swahili: the converters without a          *)
(* translate_func, with the scheduler and its jobs running inside each     *)
(* translation call.                                                       *)
(***************************************************************************)
\* The defaults convert leaves in force: max_retries (line 142), the
\* max_chars translate_to_swahili chunks with (line 155), and
\* translate_concurrency (line 13 of the block-level converter).
DefaultRetries == 4
TranslateMaxChars == 3000
DefaultConcurrency == 3

\* The text of the translation call convert is about to make (line 91 of
\* the line-level converter; lines 48 and 56 of the block-level one) and
\* the max_workers it passes.
CallText ==
    IF variant = "block" /\ ~rescue THEN PageText
    ELSE UnitText(page_index, Len(translated) + 1)
CallWorkers == IF variant = "line" THEN 1 ELSE DefaultConcurrency

PipeInit ==
    /\ KIdle
    /\ ConvStart
    /\ ~has_func
    /\ chunks = <<>>
    /\ max_retries = DefaultRetries
    /\ max_workers = 1
    /\ audit = FALSE
    /\ trace = FALSE
    /\ fstate = <<>> /\ jpc = <<>> /\ attempt = <<>> /\ prov = <<>>
    /\ fresult = <<>> /\ fvia = <<>> /\ nprimary = <<>> /\ nsweeps = <<>>
    /\ sawAcceptable = <<>> /\ allEcho = <<>>
    /\ result = <<>> /\ swept = <<>> /\ sweepfb = <<>>
    /\ results = <<>> /\ slotSrc = <<>> /\ collected = {}
    /\ mpc = "idle"
    /\ idx = 0 /\ parts = <<>> /\ mprov = 0 /\ fbClean = TRUE /\ fbFailed = {}
    /\ retval = <<>>

\* convert calls translate_to_swahili(text, max_workers=...): lines 150-166
\* chunk the text and submit one job per chunk.
CallTranslate ==
    /\ cpc = "translate"
    /\ mpc = "idle"
    /\ CallText # <<>>
    /\ LET cs == chunk_text(CallText, TranslateMaxChars).out
           n == Len(cs)
       IN  /\ chunks' = cs
           /\ fstate' = [i \in 1..n |-> "pending"]
           /\ jpc' = [i \in 1..n |-> "idle"]
           /\ attempt' = [i \in 1..n |-> 0]
           /\ prov' = [i \in 1..n |-> 0]
           /\ fresult' = [i \in 1..n |-> <<>>]
           /\ fvia' = [i \in 1..n |-> "none"]
           /\ nprimary' = [i \in 1..n |-> 0]
           /\ nsweeps' = [i \in 1..n |-> 0]
           /\ sawAcceptable' = [i \in 1..n |-> FALSE]
           /\ allEcho' = [i \in 1..n |-> TRUE]
           /\ result' = [i \in 1..n |-> Raised]
           /\ swept' = [i \in 1..n |-> <<>>]
           /\ sweepfb' = [i \in 1..n |-> <<>>]
           /\ results' = [i \in 1..n |-> <<>>]
           /\ slotSrc' = [i \in 1..n |-> <<>>]
    /\ max_retries' = DefaultRetries
    /\ max_workers' = CallWorkers
    /\ collected' = {}
    /\ mpc' = "collect"
    /\ idx' = 0
    /\ parts' = <<>>
    /\ mprov' = 0
    /\ fbClean' = TRUE
    /\ fbFailed' = {}
    /\ retval' = <<>>
    /\ UNCHANGED <<audit, trace, cvars, kvars>>

\* A convert that goes on without waiting for translate_to_swahili.
CallReturnedAnyTime == mpc # "idle"

\* translate_to_swahili has returned (line 183).
CallReturned == mpc = "done"

\* convert takes the value translate_to_swahili returned.
TranslateReturned ==
    /\ cpc = "translate"
    /\ CallReturned
    /\ IF variant = "line" THEN LineGot([raised |-> FALSE, text |-> retval])
       ELSE IF rescue THEN RescueGot(retval)
       ELSE BlocksGot(retval)
    /\ mpc' = "idle"
    /\ UNCHANGED <<params, jobvars, results, slotSrc, collected, idx, parts, mprov,
                   fbClean, fbFailed, retval, kvars>>

PipeNext ==
    \/ PageStart
    \/ CallTranslate
    \/ TNext
    \/ TranslateReturned
    \/ Redact
    \/ DrawNext
    \/ \E leftover \in Leftovers : InsertReturn(leftover)
    \/ InsertRaises
    \/ Save

PipeSpec == PipeInit /\ [][PipeNext]_vars

(***************************************************************************)
(* Claims about the converters (ConvSpec).                                 *)
(***************************************************************************)
\* The unit of the page the last _draw_fit_text call was made for.
FitUnit == IF inFit \/ cpc = "failed" THEN unit ELSE unit - 1
FitDone == cpc \in {"draw", "next", "done"} /\ ~inFit /\ fitLog # <<>>

\* C2: in the line-level converter with a translate_func, a unit for which
\* the translator raises gets its own source text as translation, every
\* other unit of the page keeps what the translator returned for it, the
\* exception never leaves convert, the page is composited with the raising
\* unit redacted and redrawn, and the document is saved.
C2_RaisingUnitFallsBack ==
    (variant = "line" /\ has_func) =>
        /\ cpc # "raised"
        /\ Len(treturned) = Len(translated)
        /\ \A k \in 1..Len(treturned) :
             /\ (k \in raisedUnits) <=> treturned[k].raised
             /\ translated[k] = IF treturned[k].raised
                                THEN UnitText(page_index, k)
                                ELSE treturned[k].text
        /\ (cpc \in {"next", "done"} /\ NUnits > 0) =>
             (Len(translated) = NUnits /\ raisedUnits \subseteq (redactAnnots \cap drawn))
        /\ (cpc = "done") => saved = 1

\* The document is saved after a page where the translator raised for one
\* unit and translated another.
C2_Witness ==
    /\ variant = "line" /\ has_func /\ cpc = "done" /\ saved = 1
    /\ \E k \in raisedUnits : translated[k] = UnitText(page_index, k)
    /\ \E k \in 1..Len(translated) :
          k \notin raisedUnits /\ translated[k] = Tr(UnitText(page_index, k))

\* C8: in both converters a unit whose translated text is empty or blank
\* gets no redaction annotation and no draw call, and apply_redactions is
\* called on a page only if some unit of the page was marked (and then once).
C8_SkipOnEmpty ==
    /\ \A k \in redactAnnots \cup drawn :
          k \in 1..Len(translated) /\ strip(translated[k]) # <<>>
    /\ (cpc \in {"draw", "next", "done"} /\ NUnits > 0) =>
          \A k \in 1..Len(translated) :
              strip(translated[k]) = <<>> => k \notin redactAnnots \cup drawn
    /\ applied \in {0, 1}
    /\ (applied = 1) => redactAnnots # {}

\* A finished page of the block-level converter with a blank translated
\* block left alone and another block redacted and redrawn.
C8_Witness ==
    /\ variant = "block" /\ cpc = "next" /\ applied = 1
    /\ \E k \in 1..Len(translated) :
          strip(translated[k]) = <<>> /\ k \notin redactAnnots /\ k \notin drawn
    /\ \E k \in 1..Len(translated) : k \in redactAnnots /\ k \in drawn

\* C9: _draw_fit_text goes on after a draw only if that draw signalled
\* overflow; when it returns right after a draw that signalled overflow,
\* that draw is the truncated render and the auto-fit and every size of the
\* ladder were tried before it; a return before the truncated render is
\* right after a draw that reported no overflow.
C9_NoStopOnOverflow ==
    /\ \A j \in 1..(Len(fitLog) - 1) : Overflowed(fitLog[j].leftover)
    /\ FitDone =>
         LET calls == FitCalls(variant, UnitSize(page_index, FitUnit))
             n == Len(fitLog)
         IN  /\ n <= Len(calls)
             /\ \A j \in 1..n :
                  fitLog[j].kind = calls[j].kind /\ fitLog[j].size = calls[j].size
             /\ Overflowed(fitLog[n].leftover) =>
                  (n = Len(calls) /\ fitLog[n].kind = "trunc")
             /\ (n < Len(calls)) => ~Overflowed(fitLog[n].leftover)

\* A line-level unit whose every size overflowed and that was truncated.
C9_Witness ==
    /\ FitDone /\ variant = "line"
    /\ Len(fitLog) >= 4
    /\ fitLog[Len(fitLog)].kind = "trunc"
    /\ fitLog[Len(fitLog) - 1].size = 6 /\ fitLog[Len(fitLog) - 1].kind = "ladder"

\* C10 (as claimed): whenever _draw_fit_text has returned, the last draw it
\* issued reported no overflow.
C10_LastDrawFits ==
    FitDone => ~Overflowed(fitLog[Len(fitLog)].leftover)

(***************************************************************************)
(* Claims about _chunk_text (ChunkSpec).                                   *)
(***************************************************************************)
\* C11 (as claimed): no chunk yielded by _chunk_text is longer than
\* max_chars, except a chunk that is one single sentence which is itself
\* longer than max_chars.
C11_ChunksWithinBudget ==
    \A j \in 1..Len(yielded) :
        \/ Len(yielded[j]) <= max_chars
        \/ yielded[j] \in SentencesOf(ktext)

\* C12 (as claimed): once the generator is exhausted, the chunks joined back
\* with the separators that stood between them in the text hold the text's
\* non-whitespace characters, none lost, none added, in the same order.
C12_RoundTrip ==
    (kpc = "exhausted") => NonSpace(Rejoined(Len(yielded))) = NonSpace(ktext)

(***************************************************************************)
(* Claims about the pages of convert (ConvSpec).                           *)
(***************************************************************************)
PageLogs == <<redactAnnots, applied, drawn, fitLog>>

\* C13: every page takes one of two paths.  A page with no units is skipped:
\* no translation, no redaction, no draw, and the loop goes on to the next
\* page.  A page with units is translated, then composited (redaction, then
\* drawing), then finished, each phase once and in that order; no page is
\* composited while it is translated and none is translated after its
\* compositing began; convert is done only when the loop took every page.
C13_PagePaths ==
    /\ [](/\ (cpc = "next" /\ page_index >= 1 /\ doc[page_index] = 0) =>
               (translated = <<>> /\ redactAnnots = {} /\ applied = 0 /\ drawn = {})
          /\ (cpc \in {"translate", "redact", "draw"}) => NUnits > 0
          /\ (cpc = "done") => page_index = NPages)
    /\ [][/\ (page_index' # page_index) =>
               /\ cpc = "next" /\ page_index' = page_index + 1
               /\ cpc' = IF doc[page_index'] = 0 THEN "next" ELSE "translate"
               /\ translated' = <<>> /\ redactAnnots' = {} /\ applied' = 0 /\ drawn' = {}
          /\ (cpc' # cpc) =>
               <<cpc, cpc'>> \in {<<"next", "translate">>, <<"translate", "redact">>,
                                  <<"redact", "draw">>, <<"draw", "next">>,
                                  <<"draw", "failed">>, <<"next", "done">>}
          /\ (cpc' # cpc /\ cpc' # "translate") => page_index' = page_index
          /\ (cpc = "translate") => PageLogs' = PageLogs
          /\ (cpc \in {"redact", "draw"}) => translated' = translated
         ]_vars

\* convert is done with a document whose first page was skipped and whose
\* second page was translated and composited.
C13_Witness ==
    /\ cpc = "done" /\ NPages = 2 /\ doc[1] = 0 /\ doc[2] > 0
    /\ Len(translated) = doc[2] /\ drawn # {}

\* C14: the document is saved once, after the loop took every page and the
\* last one is skipped or done; once it is saved no page is redacted or
\* drawn on; when convert raises, nothing was saved and nothing is saved.
C14_SavedOnceAtTheEnd ==
    /\ [](/\ saved \in {0, 1}
          /\ (saved = 1) <=> (cpc = "done")
          /\ (saved = 1) => (page_index = NPages /\ ~inFit)
          /\ (cpc \in {"failed", "raised"}) => saved = 0)
    /\ [][/\ (saved' # saved) => (cpc = "next" /\ page_index = NPages /\ saved' = 1)
          /\ (saved = 1 \/ cpc \in {"failed", "raised"}) =>
               (PageLogs' = PageLogs /\ saved' = saved)
         ]_vars

\* A document of two pages is saved, the first page composited before.
C14_Witness ==
    /\ saved = 1 /\ cpc = "done" /\ NPages = 2 /\ doc[1] > 0 /\ page_index = 2

(***************************************************************************)
(* Claims about the calls of translate_to_swahili (Spec, JobSpec).         *)
(***************************************************************************)
\* The jobs with a provider call in flight, and the main thread's fallback
\* call.
Calling == {i \in Jobs : fstate[i] = "running" /\ jpc[i] \in {"primary", "sweep", "final"}}
InFlight == Cardinality(Calling) + (IF mpc = "fallback" THEN 1 ELSE 0)

\* C16 (as claimed): at every moment of translate_to_swahili the provider
\* calls in flight, those of the line-level fallback included, are at most
\* max(1, max_workers).
C16_CallsWithinPool == InFlight <= PoolSize

\* The sweep of job i is running; the sweep of job i is over.
Sweeping(i) == fstate[i] = "running" /\ jpc[i] \in {"sweep", "final"}
SweepOver(i) == ~Sweeping(i) /\ swept[i] # <<>>

\* C17: _provider_try_all calls its providers in the order 1 (Google),
\* 2 (MyMemory, locale codes), 3 (MyMemory, language names),
\* 4 (LibreTranslate); provider k is called only when every earlier one
\* raised or gave an empty or unchanged text; the sweep returns the first
\* acceptable text, is not ended by a provider that raises, and returns the
\* chunk itself when all four gave nothing acceptable.
C17_ProviderOrder ==
    \A i \in Jobs :
        /\ Len(swept[i]) <= NumProviders
        /\ \A k \in 1..(Len(swept[i]) - 1) : ~Acceptable(swept[i][k], chunks[i])
        /\ Sweeping(i) =>
             /\ prov[i] = Len(swept[i]) + 1
             /\ \A k \in 1..Len(swept[i]) : ~Acceptable(swept[i][k], chunks[i])
        /\ SweepOver(i) =>
             LET last == swept[i][Len(swept[i])]
             IN  IF Acceptable(last, chunks[i])
                 THEN sweepfb[i] = last.text
                 ELSE Len(swept[i]) = NumProviders /\ sweepfb[i] = chunks[i]

\* A sweep whose first provider raised, whose second and third gave nothing
\* acceptable and whose fourth gave the text the job returned.
C17_Witness ==
    /\ SweepOver(1) /\ Len(swept[1]) = NumProviders
    /\ swept[1][1].raised /\ ~swept[1][2].raised
    /\ Acceptable(swept[1][NumProviders], chunks[1])
    /\ fstate[1] = "succeeded" /\ fresult[1] = swept[1][NumProviders].text

\* C18 (as claimed): when the primary translator returns a degenerate text,
\* unchanged or empty, the provider chain is swept within the same attempt:
\* the job never reaches the backoff sleep of an attempt whose primary call
\* returned without a sweep having been made.
C18_DegenerateSweepsAtOnce ==
    \A i \in Jobs :
        (fstate[i] = "running" /\ jpc[i] = "backoff" /\ ~result[i].raised)
            => swept[i] # <<>>

\* C19 (as claimed): a backoff delay is taken only between two primary
\* attempts: the job sleeps (line 132) after failed attempt k only when
\* attempt k + 1 follows, never before the last-chance sweep.
C19_DelaysBetweenAttempts ==
    \A i \in Jobs :
        (fstate[i] = "running" /\ jpc[i] = "backoff") =>
            (attempt[i] >= 1 /\ attempt[i] + 1 <= max_retries)

Finished(i) == fstate[i] \in {"succeeded", "failed"}

\* C20: every job makes at most max_retries calls on the primary translator
\* and at most max_retries + 1 sweeps of the provider chain and ends
\* succeeded or failed, and translate_to_swahili returns, for max_retries
\* from 0 and for every max_workers, zero and negative included.
C20_Terminates ==
    /\ [](\A i \in Jobs : nprimary[i] <= max_retries /\ nsweeps[i] <= max_retries + 1)
    /\ [](mpc = "done" => \A i \in Jobs : Finished(i))
    /\ <>(mpc = "done")

\* translate_to_swahili returned with max_workers below 1 after a job that
\* made max_retries primary attempts and max_retries + 1 sweeps.
C20_Witness ==
    /\ mpc = "done" /\ max_workers < 1 /\ max_retries = 1 /\ N = MaxChunks
    /\ \E i \in Jobs : fstate[i] = "failed" /\ nprimary[i] = 1 /\ nsweeps[i] = 2

(***************************************************************************)
(* Claims about convert and its translation workers (PipeSpec).            *)
(***************************************************************************)
\* A job of the running translate_to_swahili call is queued or running.
Unfinished == {i \in Jobs : fstate[i] \in {"pending", "running"}}

\* The translation calls convert makes for the page it is at.
\* A page without units gets no call (lines 78-79; 44-45).
CallsNeeded ==
    IF variant = "line" \/ NUnits = 0 THEN NUnits
    ELSE IF rescue THEN 1 + NUnits ELSE 1

\* The translation calls made so far for the page, the one that raised
\* included.
CallsDone ==
    IF variant = "line" THEN Len(treturned) + (IF cpc = "raised" THEN 1 ELSE 0)
    ELSE IF NUnits = 0 THEN 0
    ELSE IF rescue THEN 1 + Len(translated)
    ELSE IF cpc = "translate" THEN 0 ELSE 1

\* C15: a page is mutated (redaction annotation added, redactions applied,
\* text drawn) only by a step of convert's own thread, taken when every
\* translation call for the page has returned and no job of a translation
\* call is queued or running; while a job is queued or running the page
\* has not been touched; a step of a worker leaves the page alone.
C15_MutationAfterTranslation ==
    /\ [](Unfinished # {} =>
            (cpc = "translate" /\ redactAnnots = {} /\ applied = 0
               /\ drawn = {} /\ fitLog = <<>>))
    /\ [][/\ (PageLogs' # PageLogs /\ page_index' = page_index) =>
               /\ cpc \in {"redact", "draw"}
               /\ mpc = "idle"
               /\ Unfinished = {}
               /\ CallsDone = CallsNeeded
               /\ jobvars' = jobvars
          /\ (jobvars' # jobvars) => PageLogs' = PageLogs
         ]_vars

\* A block-level page is being drawn on after the page call and the
\* per-block rescue calls, in one of which the job failed and the fallback
\* ran, have all returned.
C15_Witness ==
    /\ variant = "block" /\ rescue /\ cpc = "draw" /\ drawn # {} /\ applied = 1
    /\ mpc = "idle" /\ N = 1 /\ fstate[1] = "failed"

(***************************************************************************)
(* Claims about the sizes and the truncation of _draw_fit_text (ConvSpec). *)
(***************************************************************************)
\* The calls of the last _draw_fit_text that tried an explicit size on the
\* whole text.
LadderTried == SelectSeq(fitLog, LAMBDA c : c.kind = "ladder")

\* C21 (as claimed): in the line-level converter the sizes tried after an
\* overflowing auto-fit are strictly descending, start at the integer part
\* of the unit's size hint (12 without a hint), are never below 6, and a
\* truncated render is always preceded by an attempt at size 6.
C21_LadderReachesFloor ==
    (variant = "line" /\ cpc = "draw" /\ fitLog # <<>>) =>
        /\ \A j \in 1..Len(LadderTried) : LadderTried[j].size >= 6
        /\ \A j \in 1..(Len(LadderTried) - 1) :
               LadderTried[j + 1].size < LadderTried[j].size
        /\ (LadderTried # <<>>) =>
               LadderTried[1].size = LadderStart(UnitSize(page_index, FitUnit))
        /\ (fitLog[Len(fitLog)].kind = "trunc") =>
               \E j \in 1..Len(LadderTried) : LadderTried[j].size = 6

\* s is a proper prefix of t.
ProperPrefix(s, t) == Len(s) < Len(t) /\ s = SubSeq(t, 1, Len(s))

\* C22 (as claimed): the string drawn by the truncation step is a proper
\* prefix of the translated text, max(50, len // 3) characters long at line
\* level and max(50, len // 4) at block level, followed by the ellipsis
\* marker, and is strictly shorter than the translated text.
C22_TruncationShortens ==
    (cpc = "draw" /\ fitLog # <<>> /\ fitLog[Len(fitLog)].kind = "trunc") =>
        LET text == translated[FitUnit]
            drawn_text == fitLog[Len(fitLog)].text
            cut == SubSeq(drawn_text, 1, Len(drawn_text) - Len(Ellipsis(variant)))
        IN  /\ drawn_text = cut \o Ellipsis(variant)
            /\ ProperPrefix(cut, text)
            /\ Len(cut) = TruncLen(variant, Len(text))
            /\ Len(drawn_text) < Len(text)

(***************************************************************************)
(* Claims about the redaction marks (ConvSpec).                            *)
(***************************************************************************)
\* C23: on every page the redaction marks are all added and applied before
\* the first text is drawn, nothing is marked or applied once a text has
\* been drawn, every draw is of a unit that was marked, and when the page is
\* finished the drawn units are exactly the marked ones.
C23_RedactBeforeDraw ==
    [][ /\ (drawn' \ drawn # {}) =>
               /\ drawn' \subseteq redactAnnots
               /\ applied = 1
               /\ redactAnnots' = redactAnnots /\ applied' = applied
        /\ (applied' > applied \/ redactAnnots' \ redactAnnots # {}) =>
               (drawn = {} /\ fitLog = <<>>)
        /\ (cpc = "draw" /\ cpc' = "next") => drawn' = redactAnnots'
      ]_vars

\* A finished page on which one unit was marked and drawn and another,
\* with a blank translation, was left alone.
C23_Witness ==
    /\ cpc = "next" /\ page_index >= 1 /\ NUnits = 2
    /\ applied = 1 /\ drawn = redactAnnots /\ Cardinality(drawn) = 1

\* C24 (as claimed): every redaction mark, in both converters, has no fill
\* colour and covers exactly the region recorded for its unit.
C24_MarksWithoutFill ==
    \A a \in annots :
        /\ a.fill = NoFill
        /\ a.rect = UnitRect(variant, page_index, a.unit)

(***************************************************************************)
(* Claim about the pieces _chunk_text keeps (ChunkSpec).                   *)
(***************************************************************************)
\* The units of the buffer that was joined into chunk c.
BufferOf(c) == splitOn(c, ParaSep)

\* C25 (as claimed): no yielded chunk is empty or whitespace-only, and no
\* empty paragraph or sentence was placed in the buffer a chunk is joined
\* from.
C25_NoBlankPieces ==
    \A j \in 1..Len(yielded) :
        /\ strip(yielded[j]) # <<>>
        /\ \A u \in 1..Len(BufferOf(yielded[j])) : BufferOf(yielded[j])[u] # <<>>

(***************************************************************************)
(* Claim about the alignment of the block-level translations (ConvSpec).   *)
(***************************************************************************)
\* The block-level page has its list of translated blocks.
BlocksTranslated ==
    variant = "block" /\ cpc \in {"redact", "draw"} /\ NUnits > 0

\* C26 (as claimed): after the join, the translation, the split and the
\* per-block rescue, there are as many translated blocks as page blocks, and
\* translated block k is a text translate_to_swahili can return for the
\* source text of block k alone, whatever the translator returned.
C26_BlocksAligned ==
    BlocksTranslated =>
        /\ Len(translated) = NUnits
        /\ \A k \in 1..Len(translated) :
               translated[k] \in SwahiliResults(UnitText(page_index, k))

=============================================================================
